---- MODULE Spec2Model ----
(***************************************************************************)
(* The zoom/pan transform engine of src/lib/transform.ts and its caller    *)
(* PixiRenderer.render (src/lib/renderer-gl.ts).                           *)
(*                                                                         *)
(* Numbers.  A JavaScript number is modelled as an exact extended rational *)
(* <<n, d>> in lowest terms with d >= 0: d > 0 is the finite value n/d,    *)
(* <<1,0>> is +Infinity, <<-1,0>> is -Infinity and <<0,0>> is NaN, with    *)
(* the IEEE-754 rules for the special values.  Rounding is not modelled.   *)
(*                                                                         *)
(* Time.  Every use of a time in transform.ts is a difference, a           *)
(* comparison or a ratio of times, so times are integers in milliseconds:  *)
(* the literal 0.5 (s) is 500 and 0.016 (s) is 16.                         *)
(***************************************************************************)
EXTENDS Integers, Sequences, FiniteSets, TLC

VARIABLES
    zoomRegions,            \* state.zoomRegions, in Object.values order
    metadata,               \* state.metadata: the cursor samples
    stateRecordingGeometry, \* state.recordingGeometry (may be absent)
    videoDimensions,        \* state.videoDimensions
    frameContentDimensions, \* { width: frameContentWidth, height: frameContentHeight }
    previousPanX,           \* module-level let previousPanX
    previousPanY,           \* module-level let previousPanY
    lastPanUpdateTime,      \* module-level let lastPanUpdateTime
    alone,                  \* per session: the result and carried state of its latest call
                            \* if it were the only caller of calculateZoomTransform
    session,                \* per session: its number of calls, the query time of its latest
                            \* call (-1 if none), what it returned, and what it would have
                            \* returned to a session calling alone
    calls,                  \* number of calls made so far
    last,                   \* the most recent call: arguments, carried state before, results
    probe                   \* the most recent application of a pure helper

vars == <<zoomRegions, metadata, stateRecordingGeometry, videoDimensions,
          frameContentDimensions, previousPanX, previousPanY, lastPanUpdateTime,
          alone, session, calls, last, probe>>

-----------------------------------------------------------------------------
(* Extended rational arithmetic (JavaScript numbers without rounding).      *)

RECURSIVE GCD(_, _)
GCD(a, b) == IF b = 0 THEN a ELSE GCD(b, a % b)

Abs(n) == IF n < 0 THEN -n ELSE n

Sign(n) == IF n < 0 THEN -1 ELSE IF n > 0 THEN 1 ELSE 0

Norm(n, d) ==
    IF d = 0 THEN <<Sign(n), 0>>
    ELSE LET g == GCD(Abs(n), Abs(d))
             s == IF d < 0 THEN -1 ELSE 1
         IN  <<(s * n) \div g, (s * d) \div g>>

R(n) == <<n, 1>>
Q(n, d) == Norm(n, d)
Zero == <<0, 1>>
One == <<1, 1>>
NaN == <<0, 0>>
PosInf == <<1, 0>>
NegInf == <<-1, 0>>

IsNaN(a) == a = NaN
IsFinite(a) == a[2] > 0

Neg(a) == <<-a[1], a[2]>>

Add(a, b) ==
    IF a[2] = 0 /\ b[2] = 0 THEN (IF a[1] = b[1] THEN a ELSE NaN)
    ELSE IF a[2] = 0 THEN a
    ELSE IF b[2] = 0 THEN b
    ELSE LET g == GCD(a[2], b[2])
         IN  Norm(a[1] * (b[2] \div g) + b[1] * (a[2] \div g), (a[2] \div g) * b[2])

Sub(a, b) == Add(a, Neg(b))

Mul(a, b) ==
    IF a[2] = 0 \/ b[2] = 0 THEN <<Sign(a[1]) * Sign(b[1]), 0>>
    ELSE LET g1 == GCD(Abs(a[1]), b[2])
             g2 == GCD(Abs(b[1]), a[2])
         IN  <<(a[1] \div g1) * (b[1] \div g2), (a[2] \div g2) * (b[2] \div g1)>>

Inv(a) ==
    IF a[1] = 0 THEN (IF a[2] = 0 THEN NaN ELSE PosInf)
    ELSE IF a[1] > 0 THEN <<a[2], a[1]>>
    ELSE <<-a[2], -a[1]>>

Div(a, b) == Mul(a, Inv(b))

Lt(a, b) ==
    IF IsNaN(a) \/ IsNaN(b) \/ a = b THEN FALSE ELSE Sub(a, b)[1] < 0

Le(a, b) == ~IsNaN(a) /\ ~IsNaN(b) /\ (a = b \/ Lt(a, b))

MathMax(a, b) == IF IsNaN(a) \/ IsNaN(b) THEN NaN ELSE IF Lt(a, b) THEN b ELSE a

MathMin(a, b) == IF IsNaN(a) \/ IsNaN(b) THEN NaN ELSE IF Lt(b, a) THEN b ELSE a

-----------------------------------------------------------------------------
(* Helper functions of transform.ts.                                        *)

lerp(start, end, t) == Add(Mul(start, Sub(One, t)), Mul(end, t))

\* metadata[i] with the source's 0-based index
At(md, i) == md[i + 1]

\* Mutant: the comparison of line 26 as < instead of <=
RECURSIVE BinarySearchStrict(_, _, _, _, _)
BinarySearchStrict(md, currentTime, left, right, result) ==
    IF left <= right
    THEN LET mid == (left + right) \div 2
         IN  IF At(md, mid).timestamp < currentTime
             THEN BinarySearchStrict(md, currentTime, mid + 1, right, mid)
             ELSE BinarySearchStrict(md, currentTime, left, mid - 1, result)
    ELSE result

RECURSIVE BinarySearch(_, _, _, _, _)
BinarySearch(md, currentTime, left, right, result) ==
    IF left <= right
    THEN LET mid == (left + right) \div 2
         IN  IF At(md, mid).timestamp <= currentTime
             THEN BinarySearch(md, currentTime, mid + 1, right, mid)
             ELSE BinarySearch(md, currentTime, left, mid - 1, result)
    ELSE result

findLastMetadataIndex(md, currentTime) ==
    IF Len(md) = 0 THEN -1
    ELSE BinarySearch(md, currentTime, 0, Len(md) - 1, -1)


\* DEFAULTS.CAMERA.MOVEMENT of ./constants: the smoothing factor alpha in (0,1],
\* the dead-zone radius in recording pixels, the look-back window in ms.
SMOOTHING_FACTOR == <<1, 2>>
DEAD_ZONE == 2
SMOOTHING_WINDOW == 240

NullPos == [null |-> TRUE, x |-> Zero, y |-> Zero]
Pos(x, y) == [null |-> FALSE, x |-> x, y |-> y]

\* Math.sqrt(dx*dx + dy*dy) > deadZone, compared on the squares (deadZone >= 0)
ExceedsDeadZone(deltaX, deltaY, deadZone) ==
    Lt(R(deadZone * deadZone), Add(Mul(deltaX, deltaX), Mul(deltaY, deltaY)))

\* the for loop of getSmoothedMousePosition, from index i to endIndex
RECURSIVE SmoothLoop(_, _, _, _, _, _, _)
SmoothLoop(md, i, endIndex, smoothedX, smoothedY, smoothingFactor, deadZone) ==
    IF i <= endIndex
    THEN LET currentX == R(At(md, i).x)
             currentY == R(At(md, i).y)
             deltaX == Sub(currentX, smoothedX)
             deltaY == Sub(currentY, smoothedY)
             effectiveSmoothingFactor ==
                 IF ExceedsDeadZone(deltaX, deltaY, deadZone)
                 THEN smoothingFactor
                 ELSE Mul(smoothingFactor, <<3, 10>>)
         IN  SmoothLoop(md, i + 1, endIndex,
                        lerp(smoothedX, currentX, effectiveSmoothingFactor),
                        lerp(smoothedY, currentY, effectiveSmoothingFactor),
                        smoothingFactor, deadZone)
    ELSE <<smoothedX, smoothedY>>

\* lines 77-93: the final interpolation for sub-frame accuracy on one axis
InterpolateAxis(smoothed, next, smoothingFactor, progress) ==
    lerp(smoothed, lerp(smoothed, next, smoothingFactor), progress)

\* lines 77-93, from the loop's result sm = <<smoothedX, smoothedY>>
Interpolate(md, endIndex, targetTime, smoothingFactor, sm) ==
    IF endIndex + 1 < Len(md)
       /\ At(md, endIndex + 1).timestamp - At(md, endIndex).timestamp > 0
    THEN LET lastEvent == At(md, endIndex)
             nextEvent == At(md, endIndex + 1)
             timeDiff == nextEvent.timestamp - lastEvent.timestamp
             progress == Q(targetTime - lastEvent.timestamp, timeDiff)
         IN  Pos(InterpolateAxis(sm[1], R(nextEvent.x), smoothingFactor, progress),
                 InterpolateAxis(sm[2], R(nextEvent.y), smoothingFactor, progress))
    ELSE Pos(sm[1], sm[2])

SmoothedMousePositionAnchorLast(md, targetTime, smoothingFactor, deadZone) ==
    LET endIndex == findLastMetadataIndex(md, targetTime)
        startTime == IF targetTime - SMOOTHING_WINDOW > 0
                     THEN targetTime - SMOOTHING_WINDOW ELSE 0
        found == findLastMetadataIndex(md, startTime)
        startIndex == IF found < 0 THEN Len(md) - 1 ELSE found
    IN  IF endIndex < 0 THEN NullPos
        ELSE IF startIndex >= Len(md) THEN NullPos
        ELSE Interpolate(md, endIndex, targetTime, smoothingFactor,
                         SmoothLoop(md, startIndex + 1, endIndex,
                                    R(At(md, startIndex).x), R(At(md, startIndex).y),
                                    smoothingFactor, deadZone))

SmoothedMousePosition(md, targetTime, smoothingFactor, deadZone) ==
    LET endIndex == findLastMetadataIndex(md, targetTime)
        startTime == IF targetTime - SMOOTHING_WINDOW > 0
                     THEN targetTime - SMOOTHING_WINDOW ELSE 0
        found == findLastMetadataIndex(md, startTime)
        startIndex == IF found < 0 THEN 0 ELSE found
    IN  IF endIndex < 0 THEN NullPos
        ELSE IF startIndex >= Len(md) THEN NullPos
        ELSE Interpolate(md, endIndex, targetTime, smoothingFactor,
                         SmoothLoop(md, startIndex + 1, endIndex,
                                    R(At(md, startIndex).x), R(At(md, startIndex).y),
                                    smoothingFactor, deadZone))

getSmoothedMousePosition(md, targetTime) ==
    SmoothedMousePosition(md, targetTime, SMOOTHING_FACTOR, DEAD_ZONE)

\* the legal translation envelope of one axis (maxTx/minTx, maxTy/minTy)
MaxT(pivot, dim, zoomLevel) ==
    Div(Mul(Mul(pivot, R(dim)), Sub(zoomLevel, One)), zoomLevel)

MinT(pivot, dim, zoomLevel) ==
    Div(Neg(Mul(Mul(Sub(One, pivot), R(dim)), Sub(zoomLevel, One))), zoomLevel)

\* the pan that would center the mouse on one axis (targetTranslateX/Y)
TargetTranslate(mouse, pivot, zoomLevel, recordingDim, frameDim) ==
    LET nsm == Div(mouse, R(recordingDim))
        targetFinalPan ==
            Mul(Sub(<<1, 2>>, Add(Mul(Sub(nsm, pivot), zoomLevel), pivot)), R(frameDim))
    IN  Div(targetFinalPan, zoomLevel)

\* Mutant: the clamp without its lower bound
ClampUpperOnly(minT, maxT, target) == MathMin(maxT, target)

Clamp(minT, maxT, target) == MathMax(minT, MathMin(maxT, target))

\* Mutant: no early return for an absent mouse position
calculateBoundedPanNoNullCheck(mousePos, origin, zoomLevel, recordingGeometry, frameDims) ==
    [tx |-> Clamp(MinT(origin.x, frameDims.width, zoomLevel),
                  MaxT(origin.x, frameDims.width, zoomLevel),
                  TargetTranslate(mousePos.x, origin.x, zoomLevel,
                                  recordingGeometry.width, frameDims.width)),
     ty |-> Clamp(MinT(origin.y, frameDims.height, zoomLevel),
                  MaxT(origin.y, frameDims.height, zoomLevel),
                  TargetTranslate(mousePos.y, origin.y, zoomLevel,
                                  recordingGeometry.height, frameDims.height))]

calculateBoundedPan(mousePos, origin, zoomLevel, recordingGeometry, frameDims) ==
    IF mousePos.null THEN [tx |-> Zero, ty |-> Zero]
    ELSE [tx |-> Clamp(MinT(origin.x, frameDims.width, zoomLevel),
                       MaxT(origin.x, frameDims.width, zoomLevel),
                       TargetTranslate(mousePos.x, origin.x, zoomLevel,
                                       recordingGeometry.width, frameDims.width)),
          ty |-> Clamp(MinT(origin.y, frameDims.height, zoomLevel),
                       MaxT(origin.y, frameDims.height, zoomLevel),
                       TargetTranslate(mousePos.y, origin.y, zoomLevel,
                                       recordingGeometry.height, frameDims.height))]

getTransformOrigin(targetX, targetY) ==
    [x |-> Add(targetX, <<1, 2>>), y |-> Add(targetY, <<1, 2>>)]

\* `${fixedOrigin.x * 100}% ${fixedOrigin.y * 100}%`: the pair of percentages
FormatOrigin(fixedOrigin) == <<Mul(fixedOrigin.x, R(100)), Mul(fixedOrigin.y, R(100))>>

\* EASING_MAP of ./easing: name -> function of the progress; Balanced is the
\* default, an ease-in-out with e(0) = 0, e(1/2) = 1/2, e(1) = 1.
EasingNames == {"Balanced"}

EASING_MAP(name, p) ==
    IF Lt(p, <<1, 2>>)
    THEN Mul(R(2), Mul(p, p))
    ELSE Sub(One, Mul(R(2), Mul(Sub(One, p), Sub(One, p))))

\* (EASING_MAP[easing] || EASING_MAP.Balanced)(p)
Easing(easing, p) ==
    IF easing \in EasingNames THEN EASING_MAP(easing, p) ELSE EASING_MAP("Balanced", p)

-----------------------------------------------------------------------------
(* calculateZoomTransform.                                                  *)

PAN_SMOOTHING_FACTOR == <<1, 10>>
\* the seek threshold 0.5 (s) and the reference frame interval 0.016 (s), in ms
SeekThresholdMs == 500
FrameIntervalMs == 16

\* Mutant: the region's end included
IsActiveInclusiveEnd(r, currentTime) ==
    currentTime >= r.startTime /\ currentTime <= r.startTime + r.duration

IsActive(r, currentTime) ==
    currentTime >= r.startTime /\ currentTime < r.startTime + r.duration

\* Object.values(zoomRegions).find(...): the index of the first region with
\* startTime <= currentTime < startTime + duration, 0 when there is none
ActiveRegionIndex(regions, currentTime) ==
    IF \E i \in 1..Len(regions) : IsActive(regions[i], currentTime)
    THEN CHOOSE i \in 1..Len(regions) :
             /\ IsActive(regions[i], currentTime)
             /\ \A j \in 1..(i - 1) : ~IsActive(regions[j], currentTime)
    ELSE 0

defaultTransform ==
    [scale |-> One, translateX |-> Zero, translateY |-> Zero,
     transformOrigin |-> <<R(50), R(50)>>]

ZeroPan == [tx |-> Zero, ty |-> Zero]

\* mode === 'auto' && metadata.length > 0 && recordingGeometry.width > 0
PanGuard(mode, md, recordingGeometry) ==
    mode = "auto" /\ Len(md) > 0 /\ recordingGeometry.width > 0

\* timeDelta > 0 ? (timeDelta / 0.016) * PAN_SMOOTHING_FACTOR : 0
BaseAlpha(timeDelta) ==
    IF timeDelta > 0 THEN Mul(Q(timeDelta, FrameIntervalMs), PAN_SMOOTHING_FACTOR) ELSE Zero

Clamp01(a) == MathMax(Zero, MathMin(One, a))

\* if (!activeRegion || Math.abs(currentTime - lastPanUpdateTime) > 0.5) { if (activeRegion) ... }
ResetTracking(hasRegion, currentTime, lastTime) ==
    (~hasRegion \/ Abs(currentTime - lastTime) > SeekThresholdMs) /\ hasRegion

\* The pan target of the bounded, smoothed cursor at a reference time, (0,0)
\* when the guard fails: zoomInEndPan (at zoomInEndTime), livePan (at currentTime)
\* and finalPan (at zoomOutStartTime)
PanTargetAt(r, referenceTime, md, recordingGeometry, frameDims) ==
    IF PanGuard(r.mode, md, recordingGeometry)
    THEN calculateBoundedPan(getSmoothedMousePosition(md, referenceTime),
                             getTransformOrigin(r.targetX, r.targetY), r.zoomLevel,
                             recordingGeometry, frameDims)
    ELSE ZeroPan

\* Mutant: the hold starts strictly after the zoom-in end time
PhaseOfLateHold(r, currentTime) ==
    LET zoomOutStartTime == r.startTime + r.duration - r.transitionDuration
        zoomInEndTime == r.startTime + r.transitionDuration
    IN  IF currentTime >= r.startTime /\ currentTime < zoomInEndTime THEN "zoomIn"
        ELSE IF currentTime > zoomInEndTime /\ currentTime < zoomOutStartTime THEN "hold"
        ELSE IF currentTime >= zoomOutStartTime /\ currentTime <= r.startTime + r.duration
             THEN "zoomOut"
        ELSE "none"

\* The phase taken for an active region, by the conditions of the if / else if chain
PhaseOf(r, currentTime) ==
    LET zoomOutStartTime == r.startTime + r.duration - r.transitionDuration
        zoomInEndTime == r.startTime + r.transitionDuration
    IN  IF currentTime >= r.startTime /\ currentTime < zoomInEndTime THEN "zoomIn"
        ELSE IF currentTime >= zoomInEndTime /\ currentTime < zoomOutStartTime THEN "hold"
        ELSE IF currentTime >= zoomOutStartTime /\ currentTime <= r.startTime + r.duration
             THEN "zoomOut"
        ELSE "none"

\* What a phase leaves: the scale, the translate (also stored as previousPanX/Y)
\* and the pan target it moved to
PhaseResult(scale, tx, ty, target) ==
    [scale |-> scale, translateX |-> tx, translateY |-> ty,
     previousPanX |-> tx, previousPanY |-> ty, target |-> target]

\* Mutant: the zoom-in translate snaps to its pan target
ZoomInAtSnap(r, initialPan, t) ==
    PhaseResult(lerp(One, r.zoomLevel, t), initialPan.tx, initialPan.ty, initialPan)

\* Phase 1: ZOOM-IN, t the eased progress
ZoomInAt(r, initialPan, t) ==
    PhaseResult(lerp(One, r.zoomLevel, t), lerp(Zero, initialPan.tx, t),
                lerp(Zero, initialPan.ty, t), initialPan)

ZoomInPhase(r, currentTime, initialPan) ==
    ZoomInAt(r, initialPan,
             Easing(r.easing, Q(currentTime - r.startTime, r.transitionDuration)))

\* currentTranslate = lerp(previousPan, target, alpha) on both axes
SmoothTowards(scale, target, prevX, prevY, alpha) ==
    PhaseResult(scale, lerp(prevX, target.tx, alpha), lerp(prevY, target.ty, alpha), target)

\* Mutant: the hold snaps to the live target
HoldPhaseSnap(r, currentTime, livePan, prevX, prevY, lastTime) ==
    SmoothTowards(r.zoomLevel, livePan, prevX, prevY, One)

\* Phase 2: PAN/HOLD
HoldPhase(r, currentTime, livePan, prevX, prevY, lastTime) ==
    SmoothTowards(r.zoomLevel, livePan, prevX, prevY,
                  Clamp01(BaseAlpha(currentTime - lastTime)))

\* Mutant: no cursor influence at all
CursorInfluenceNone(t) == Zero

\* t <= 0.05 ? 1 - (t / 0.05) : 0
CursorInfluence(t) == IF Le(t, <<1, 20>>) THEN Sub(One, Div(t, <<1, 20>>)) ELSE Zero

ScalePan(pan, k) == [tx |-> Mul(pan.tx, k), ty |-> Mul(pan.ty, k)]

\* targetTx / targetTy of the zoom-out
ZoomOutTarget(r, currentTime, md, recordingGeometry, frameDims, finalPan, t, currentScale) ==
    IF PanGuard(r.mode, md, recordingGeometry)
    THEN ScalePan(calculateBoundedPan(getSmoothedMousePosition(md, currentTime),
                                      getTransformOrigin(r.targetX, r.targetY),
                                      currentScale, recordingGeometry, frameDims),
                  CursorInfluence(t))
    ELSE [tx |-> lerp(finalPan.tx, Zero, t), ty |-> lerp(finalPan.ty, Zero, t)]

\* Mutant: the zoom-out blending alpha without the convergence term
FluidAlphaNoConvergence(timeDelta, t) == Clamp01(BaseAlpha(timeDelta))

\* lerp(clamp(baseAlpha), 1, Math.pow(t, 4))
FluidAlpha(timeDelta, t) ==
    lerp(Clamp01(BaseAlpha(timeDelta)), One, Mul(Mul(t, t), Mul(t, t)))

\* Phase 3: ZOOM-OUT, t the eased progress and currentScale = lerp(zoomLevel, 1, t)
ZoomOutAt(r, currentTime, md, recordingGeometry, frameDims, finalPan, prevX, prevY, lastTime, t, currentScale) ==
    SmoothTowards(currentScale,
                  ZoomOutTarget(r, currentTime, md, recordingGeometry, frameDims,
                                finalPan, t, currentScale),
                  prevX, prevY, FluidAlpha(currentTime - lastTime, t))

ZoomOutEased(r, currentTime, md, recordingGeometry, frameDims, finalPan, prevX, prevY, lastTime, t) ==
    ZoomOutAt(r, currentTime, md, recordingGeometry, frameDims, finalPan,
              prevX, prevY, lastTime, t, lerp(r.zoomLevel, One, t))

ZoomOutPhase(r, currentTime, md, recordingGeometry, frameDims, finalPan, prevX, prevY, lastTime) ==
    ZoomOutEased(r, currentTime, md, recordingGeometry, frameDims, finalPan,
                 prevX, prevY, lastTime,
                 Easing(r.easing,
                        Q(currentTime - (r.startTime + r.duration - r.transitionDuration),
                          r.transitionDuration)))

\* The if / else if chain of the phases on the active region r, from the carried
\* pan (prevX, prevY) left by the reset test
PhaseTransform(r, phase, currentTime, md, recordingGeometry, frameDims, prevX, prevY, lastTime) ==
    CASE phase = "zoomIn" ->
             ZoomInPhase(r, currentTime,
                         PanTargetAt(r, r.startTime + r.transitionDuration,
                                     md, recordingGeometry, frameDims))
      [] phase = "hold" ->
             HoldPhase(r, currentTime,
                       PanTargetAt(r, currentTime, md, recordingGeometry, frameDims),
                       prevX, prevY, lastTime)
      [] phase = "zoomOut" ->
             ZoomOutPhase(r, currentTime, md, recordingGeometry, frameDims,
                          PanTargetAt(r, r.startTime + r.duration - r.transitionDuration,
                                      md, recordingGeometry, frameDims),
                          prevX, prevY, lastTime)
      [] OTHER -> [scale |-> One, translateX |-> Zero, translateY |-> Zero,
                   previousPanX |-> prevX, previousPanY |-> prevY, target |-> ZeroPan]

\* The return value and the module state after the call, from the phase's result ph
Returned(currentTime, idx, r, phase, reset, ph) ==
    [out |-> [scale |-> ph.scale, translateX |-> ph.translateX,
              translateY |-> ph.translateY,
              transformOrigin |-> FormatOrigin(getTransformOrigin(r.targetX, r.targetY))],
     st |-> [previousPanX |-> ph.previousPanX, previousPanY |-> ph.previousPanY,
             lastPanUpdateTime |-> currentTime],
     region |-> idx, phase |-> phase, reset |-> reset, target |-> ph.target]

\* The call with active region r = regions[idx]
ActiveTransform(currentTime, idx, r, md, recordingGeometry, frameDims, st, phase, reset) ==
    Returned(currentTime, idx, r, phase, reset,
             PhaseTransform(r, phase, currentTime, md, recordingGeometry, frameDims,
                            IF reset THEN Zero ELSE st.previousPanX,
                            IF reset THEN Zero ELSE st.previousPanY,
                            st.lastPanUpdateTime))

\* Mutant: a call without an active region records its query time
RegionTransformStampsInactive(currentTime, regions, idx, md, recordingGeometry, frameDims, st) ==
    IF idx = 0
    THEN [out |-> defaultTransform, st |-> [st EXCEPT !.lastPanUpdateTime = currentTime],
          region |-> 0, phase |-> "inactive", reset |-> FALSE, target |-> ZeroPan]
    ELSE ActiveTransform(currentTime, idx, regions[idx], md, recordingGeometry, frameDims,
                         st, PhaseOf(regions[idx], currentTime),
                         ResetTracking(TRUE, currentTime, st.lastPanUpdateTime))

RegionTransform(currentTime, regions, idx, md, recordingGeometry, frameDims, st) ==
    IF idx = 0
    THEN [out |-> defaultTransform, st |-> st, region |-> 0, phase |-> "inactive",
          reset |-> FALSE, target |-> ZeroPan]
    ELSE ActiveTransform(currentTime, idx, regions[idx], md, recordingGeometry, frameDims,
                         st, PhaseOf(regions[idx], currentTime),
                         ResetTracking(TRUE, currentTime, st.lastPanUpdateTime))

\* The call on the carried state st = [previousPanX, previousPanY, lastPanUpdateTime]:
\* the returned transform (out), the carried state after the call (st), and what
\* the call did (region index, phase, reset, the pan target the phase moved to).
calculateZoomTransform(currentTime, regions, md, recordingGeometry, frameDims, st) ==
    RegionTransform(currentTime, regions, ActiveRegionIndex(regions, currentTime),
                    md, recordingGeometry, frameDims, st)

-----------------------------------------------------------------------------
(* The inputs: zoom regions, cursor samples, geometries, query times.       *)

Region(start, dur, zoom, tx, ty, mode, easing, td) ==
    [startTime |-> start, duration |-> dur, zoomLevel |-> zoom, targetX |-> tx,
     targetY |-> ty, mode |-> mode, easing |-> easing, transitionDuration |-> td]

\* zoom-in [960,1120), hold [1120,1760), zoom-out [1760,1920)
rAuto == Region(960, 960, R(2), Zero, Zero, "auto", "Balanced", 160)
\* zoom-in [320,400), hold [400,880), zoom-out [880,960); an easing name not in the table
rSmall == Region(320, 640, <<3, 2>>, <<1, 4>>, Zero, "auto", "Cinematic", 80)
rFixed == Region(320, 640, <<3, 2>>, Zero, Zero, "fixed", "Balanced", 80)
\* no transition: hold [960,1920)
rNoTransition == Region(960, 960, R(2), <<-1, 4>>, <<1, 4>>, "auto", "Balanced", 0)
\* transitionDuration > duration / 2: zoom-in [960,1600), zoom-out [1600,1920)
rLongTransition == Region(960, 960, R(2), <<1, 4>>, Zero, "auto", "Balanced", 640)

Sample(ts, x, y) == [timestamp |-> ts, x |-> x, y |-> y]

mdEmpty == <<>>
\* a constant cursor in the far corner of the recording
mdConstant == <<Sample(0, 16, 8), Sample(1000, 16, 8), Sample(2000, 16, 8)>>
\* a moving cursor
mdMoving == <<Sample(0, 8, 4), Sample(1000, 16, 8), Sample(1240, 0, 0), Sample(1800, 12, 2)>>
\* samples that start late, two of them at the same timestamp
mdLate == <<Sample(1240, 16, 0), Sample(1240, 16, 8), Sample(1800, 0, 8)>>
\* a cursor that stays on the top edge (y = 0)
mdTopEdge == <<Sample(0, 8, 0), Sample(1000, 12, 0)>>

Geometry(w, h) == [width |-> w, height |-> h]

Setup(regions, md, rec, video, frame) ==
    [regions |-> regions, md |-> md, rec |-> rec, video |-> video, frame |-> frame]

\* <<regions, samples>>
Recordings ==
    {<<rs, md>> : rs \in {<<rAuto>>}, md \in {mdEmpty, mdConstant, mdMoving, mdLate}}
    \cup {<<rs, md>> : rs \in {<<rSmall, rAuto>>, <<rFixed, rAuto>>},
                       md \in {mdConstant, mdMoving}}
    \cup {<<rs, mdMoving>> : rs \in {<<>>, <<rNoTransition>>, <<rLongTransition>>}}

NormalSetups ==
    {Setup(r[1], r[2], <<Geometry(16, 8)>>, Geometry(16, 8), Geometry(16, 8)) :
         r \in Recordings}
    \cup {Setup(<<rAuto>>, mdMoving, <<>>, Geometry(16, 8), Geometry(8, 4))}

\* a width or a height of the recording or of the frame content is 0
DegenerateSetups ==
    {Setup(<<rAuto>>, mdMoving, <<g[1]>>, Geometry(16, 8), g[2]) :
         g \in {<<Geometry(0, 8), Geometry(16, 8)>>, <<Geometry(16, 0), Geometry(16, 8)>>,
                <<Geometry(16, 8), Geometry(0, 8)>>, <<Geometry(16, 8), Geometry(16, 0)>>}}
    \cup {Setup(<<rAuto>>, mdTopEdge, <<Geometry(16, 0)>>, Geometry(16, 8), Geometry(16, 8))}

Setups == NormalSetups \cup DegenerateSetups

QueryTimes == {800, 1040, 1200, 1280, 1760, 1840, 1920}

MaxCalls == 3

Sessions == {"preview", "export"}

FreshState == [previousPanX |-> Zero, previousPanY |-> Zero, lastPanUpdateTime |-> 0]

\* before its first call a session has been returned nothing and carries FreshState
FreshResult ==
    [out |-> defaultTransform, st |-> FreshState, region |-> 0, phase |-> "inactive",
     reset |-> FALSE, target |-> ZeroPan]

NoCall == [session |-> "none", currentTime |-> -1]
NoProbe == [fn |-> "none"]

-----------------------------------------------------------------------------
(* The state machine.                                                       *)

Init ==
    /\ \E s \in Setups :
          /\ zoomRegions = s.regions
          /\ metadata = s.md
          /\ stateRecordingGeometry = s.rec
          /\ videoDimensions = s.video
          /\ frameContentDimensions = s.frame
    /\ previousPanX = Zero
    /\ previousPanY = Zero
    /\ lastPanUpdateTime = 0
    /\ alone = [s \in Sessions |-> FreshResult]
    /\ session = [s \in Sessions |->
                     [calls |-> 0, currentTime |-> -1, monotone |-> TRUE,
                      out |-> defaultTransform, outAlone |-> defaultTransform]]
    /\ calls = 0
    /\ last = NoCall
    /\ probe = NoProbe

\* state.recordingGeometry || state.videoDimensions
RecordingGeometry ==
    IF stateRecordingGeometry = <<>> THEN videoDimensions ELSE stateRecordingGeometry[1]

\* the module-level state of transform.ts
Carried ==
    [previousPanX |-> previousPanX, previousPanY |-> previousPanY,
     lastPanUpdateTime |-> lastPanUpdateTime]

\* PixiRenderer.render of session s at currentTime: step 5, the transform.
\* last records the call; alone[s] is the same call made on the state that only
\* the calls of s have written.
Render(s, currentTime) ==
    /\ calls < MaxCalls
    /\ videoDimensions.width # 0 /\ videoDimensions.height # 0
    /\ last' = [session |-> s, currentTime |-> currentTime, before |-> Carried,
                previousTime |-> session[s].currentTime,
                res |-> calculateZoomTransform(currentTime, zoomRegions, metadata,
                            RecordingGeometry, frameContentDimensions, Carried)]
    /\ previousPanX' = last'.res.st.previousPanX
    /\ previousPanY' = last'.res.st.previousPanY
    /\ lastPanUpdateTime' = last'.res.st.lastPanUpdateTime
    /\ alone' = [alone EXCEPT ![s] =
                    IF @.st = Carried THEN last'.res
                    ELSE calculateZoomTransform(currentTime, zoomRegions, metadata,
                             RecordingGeometry, frameContentDimensions, @.st)]
    /\ session' = [session EXCEPT ![s] =
                      [calls |-> @.calls + 1, currentTime |-> currentTime,
                       monotone |-> @.monotone /\ @.currentTime <= currentTime,
                       out |-> last'.res.out, outAlone |-> alone'[s].out]]
    /\ calls' = calls + 1
    /\ UNCHANGED <<zoomRegions, metadata, stateRecordingGeometry, videoDimensions,
                   frameContentDimensions, probe>>

\* one playback session
Next == \E t \in QueryTimes : Render("preview", t)

Spec == Init /\ [][Next]_vars

\* a live preview and an export in the same module instance
NextShared == \E s \in Sessions, t \in QueryTimes : Render(s, t)

SpecShared == Init /\ [][NextShared]_vars

-----------------------------------------------------------------------------
(* The pure helpers applied to inputs drawn from bounded sets; a behaviour  *)
(* applies one helper to one input.                                         *)

MaxLen == 4
MaxStamp == 2

\* the sample sequences of length n with non-decreasing timestamps in 0..MaxStamp
SortedSamples(n) ==
    {[i \in 1..n |-> Sample(f[i], 0, 0)] :
        f \in {g \in [1..n -> 0..MaxStamp] : \A i \in 1..(n - 1) : g[i] <= g[i + 1]}}

IndexSamples == UNION {SortedSamples(n) : n \in 0..MaxLen}
IndexTimes == (-1)..(MaxStamp + 1)

SmoothSamples == {mdEmpty, mdConstant, mdMoving, mdLate, mdTopEdge}
SmoothTimes == {-100, 0, 500, 1000, 1100, 1239, 1240, 1500, 1800, 2500}

Point(x, y) == [x |-> x, y |-> y]

\* pivots in [0,1] x [0,1], zoom levels >= 1, positive geometries, cursor
\* positions inside and outside the recording
PanOrigins == {Point(Zero, One), Point(<<1, 4>>, <<1, 2>>), Point(<<1, 2>>, <<1, 2>>),
               Point(<<3, 4>>, <<1, 4>>), Point(One, Zero)}
PanZooms == {One, <<3, 2>>, R(2), R(3)}
PanFrames == {Geometry(16, 8), Geometry(8, 4), Geometry(10, 6)}
PanMice == {NullPos} \cup {Pos(R(x), R(y)) : x \in {-4, 0, 5, 8, 16, 20}, y \in {0, 3, 8}}

ProbeIndex ==
    /\ probe = NoProbe
    /\ \E md \in IndexSamples, T \in IndexTimes :
          probe' = [fn |-> "findLastMetadataIndex", metadata |-> md, time |-> T,
                    result |-> findLastMetadataIndex(md, T)]
    /\ UNCHANGED <<zoomRegions, metadata, stateRecordingGeometry, videoDimensions,
                   frameContentDimensions, previousPanX, previousPanY,
                   lastPanUpdateTime, alone, session, calls, last>>

\* the smoothed position and the bounded pan computed from it
Smoothed(md, T, o, mousePos) ==
    [fn |-> "getSmoothedMousePosition", metadata |-> md, time |-> T, result |-> mousePos,
     pan |-> calculateBoundedPan(mousePos, o, R(2), Geometry(16, 8), Geometry(16, 8))]

ProbeSmooth ==
    /\ probe = NoProbe
    /\ \E md \in SmoothSamples, T \in SmoothTimes, o \in PanOrigins :
          probe' = Smoothed(md, T, o, getSmoothedMousePosition(md, T))
    /\ UNCHANGED <<zoomRegions, metadata, stateRecordingGeometry, videoDimensions,
                   frameContentDimensions, previousPanX, previousPanY,
                   lastPanUpdateTime, alone, session, calls, last>>

ProbePan ==
    /\ probe = NoProbe
    /\ \E m \in PanMice, o \in PanOrigins, z \in PanZooms, f \in PanFrames :
          probe' = [fn |-> "calculateBoundedPan", mousePos |-> m, origin |-> o,
                    zoomLevel |-> z, recordingGeometry |-> Geometry(16, 8),
                    frameContentDimensions |-> f,
                    result |-> calculateBoundedPan(m, o, z, Geometry(16, 8), f)]
    /\ UNCHANGED <<zoomRegions, metadata, stateRecordingGeometry, videoDimensions,
                   frameContentDimensions, previousPanX, previousPanY,
                   lastPanUpdateTime, alone, session, calls, last>>

\* the three pan targets of calculateZoomTransform for region r at currentTime
ProbeTargets ==
    /\ probe = NoProbe
    /\ \E r \in {rAuto, rSmall, rFixed}, md \in SmoothSamples, t \in QueryTimes :
          probe' = [fn |-> "panTargets", region |-> r, metadata |-> md, currentTime |-> t,
                    initialPan |-> PanTargetAt(r, r.startTime + r.transitionDuration, md,
                                               Geometry(16, 8), Geometry(16, 8)),
                    livePan |-> PanTargetAt(r, t, md, Geometry(16, 8), Geometry(16, 8)),
                    finalPan |-> PanTargetAt(r, r.startTime + r.duration - r.transitionDuration,
                                             md, Geometry(16, 8), Geometry(16, 8))]
    /\ UNCHANGED <<zoomRegions, metadata, stateRecordingGeometry, videoDimensions,
                   frameContentDimensions, previousPanX, previousPanY,
                   lastPanUpdateTime, alone, session, calls, last>>

\* carried pans and times since the last call (ms) for the phase formulas
CarriedPans == {Point(Zero, Zero), Point(R(-2), One), Point(<<3, 2>>, <<-1, 2>>)}
CallGaps == {0, 16, 80, 400}

\* Hold at the zoom-in end time, entered with the pan the zoom-in left
HoldAfter(r, md, lastTime, zoomIn) ==
    HoldPhase(r, r.startTime + r.transitionDuration,
              PanTargetAt(r, r.startTime + r.transitionDuration, md,
                          Geometry(16, 8), Geometry(16, 8)),
              zoomIn.previousPanX, zoomIn.previousPanY, lastTime)

\* The phase formulas of region r evaluated at its three phase boundaries, from
\* the carried pan prev and a last call gap ms before the boundary: the zoom-in
\* at progress 1 and the Hold that follows it, the Hold and the zoom-out at the
\* zoom-out start, the zoom-out at progress 1
Boundaries(r, md, prev, gap, zoomInEndTime, zoomOutStartTime, zoomIn) ==
    [fn |-> "phaseBoundaries", region |-> r, metadata |-> md, prev |-> prev, gap |-> gap,
     zoomInEnd |-> zoomIn,
     holdStart |-> HoldAfter(r, md, zoomInEndTime - gap, zoomIn),
     holdEnd |-> HoldPhase(r, zoomOutStartTime,
                           PanTargetAt(r, zoomOutStartTime, md,
                                       Geometry(16, 8), Geometry(16, 8)),
                           prev.x, prev.y, zoomOutStartTime - gap),
     holdAlpha |-> Clamp01(BaseAlpha(gap)),
     zoomOutStart |-> ZoomOutPhase(r, zoomOutStartTime, md, Geometry(16, 8),
                                   Geometry(16, 8),
                                   PanTargetAt(r, zoomOutStartTime, md,
                                               Geometry(16, 8), Geometry(16, 8)),
                                   prev.x, prev.y, zoomOutStartTime - gap),
     zoomOutAlpha |-> FluidAlpha(gap, Easing(r.easing, Zero)),
     zoomOutEnd |-> ZoomOutPhase(r, r.startTime + r.duration, md, Geometry(16, 8),
                                 Geometry(16, 8),
                                 PanTargetAt(r, zoomOutStartTime, md,
                                             Geometry(16, 8), Geometry(16, 8)),
                                 prev.x, prev.y, r.startTime + r.duration - gap)]

ProbeBoundaries ==
    /\ probe = NoProbe
    /\ \E r \in {rAuto, rSmall, rFixed}, md \in SmoothSamples,
          prev \in CarriedPans, gap \in CallGaps :
          probe' = Boundaries(r, md, prev, gap, r.startTime + r.transitionDuration,
                              r.startTime + r.duration - r.transitionDuration,
                              ZoomInPhase(r, r.startTime + r.transitionDuration,
                                          PanTargetAt(r, r.startTime + r.transitionDuration,
                                                      md, Geometry(16, 8), Geometry(16, 8))))
    /\ UNCHANGED <<zoomRegions, metadata, stateRecordingGeometry, videoDimensions,
                   frameContentDimensions, previousPanX, previousPanY,
                   lastPanUpdateTime, alone, session, calls, last>>

\* times into the zoom-out and times since the last call (ms)
ZoomOutOffsets == {0, 20, 40, 80, 120, 160}
ZoomOutGaps == {0, 40, 80, 400}

\* Phase 3 of region r at offset ms after the zoom-out start, from the carried
\* pan prev and a last call gap ms earlier
ProbeZoomOut ==
    /\ probe = NoProbe
    /\ \E r \in {rAuto, rSmall, rFixed}, md \in {mdEmpty, mdConstant, mdLate, mdTopEdge},
          offset \in ZoomOutOffsets, prev \in CarriedPans, gap \in ZoomOutGaps :
          /\ offset <= r.transitionDuration
          /\ probe' = [fn |-> "zoomOut", region |-> r, metadata |-> md,
                       offset |-> offset, prev |-> prev, gap |-> gap,
                       result |->
                           ZoomOutPhase(r, r.startTime + r.duration - r.transitionDuration
                                           + offset,
                                        md, Geometry(16, 8), Geometry(16, 8),
                                        PanTargetAt(r, r.startTime + r.duration
                                                       - r.transitionDuration,
                                                    md, Geometry(16, 8), Geometry(16, 8)),
                                        prev.x, prev.y,
                                        r.startTime + r.duration - r.transitionDuration
                                           + offset - gap)]
    /\ UNCHANGED <<zoomRegions, metadata, stateRecordingGeometry, videoDimensions,
                   frameContentDimensions, previousPanX, previousPanY,
                   lastPanUpdateTime, alone, session, calls, last>>

\* a cursor resting at (ax, ay) that jumps once to (bx, by) at 400 ms and rests
\* there, sampled every 200 ms before the jump and every 40 ms after it
JumpStream(ax, ay, bx, by) ==
    <<Sample(0, ax, ay), Sample(200, ax, ay), Sample(400, bx, by), Sample(440, bx, by),
      Sample(480, bx, by), Sample(520, bx, by), Sample(560, bx, by), Sample(600, bx, by)>>

JumpStreams == {JumpStream(0, 4, 16, 4), JumpStream(16, 8, 0, 0)}
JumpTimes == {100, 300, 400, 440, 460, 480, 500, 520, 540, 560, 600, 700, 900}

\* getSmoothedMousePosition at two query times T1 < T2 of one stream
ProbeJump ==
    /\ probe = NoProbe
    /\ \E md \in JumpStreams, T1 \in JumpTimes, T2 \in JumpTimes :
          /\ T1 < T2
          /\ probe' = [fn |-> "jump", metadata |-> md, time1 |-> T1, time2 |-> T2,
                       result1 |-> getSmoothedMousePosition(md, T1),
                       result2 |-> getSmoothedMousePosition(md, T2)]
    /\ UNCHANGED <<zoomRegions, metadata, stateRecordingGeometry, videoDimensions,
                   frameContentDimensions, previousPanX, previousPanY,
                   lastPanUpdateTime, alone, session, calls, last>>

\* time-ordered samples up to the lookahead sample of a query time, and the
\* samples that may follow them; timestamps are times since the recording started
CausalStamps == {0, 200, 400}
CausalXs == {0, 16}
CausalPrefixes ==
    UNION {{md \in [1..n -> {Sample(t, x, 4) : t \in CausalStamps, x \in CausalXs}] :
               \A i \in 1..(n - 1) : md[i].timestamp <= md[i + 1].timestamp} : n \in 1..3}
CausalTails ==
    {<<>>, <<Sample(600, 0, 4)>>, <<Sample(600, 16, 4)>>,
     <<Sample(400, 16, 4), Sample(600, 0, 4)>>}
CausalTimes == {-100, 0, 100, 200, 300}

\* getSmoothedMousePosition for one target time on two sequences that agree up
\* to the sample after the last one at or before the target time
ProbeCausal ==
    /\ probe = NoProbe
    /\ \E pre \in CausalPrefixes, T \in CausalTimes, tail1 \in CausalTails, tail2 \in CausalTails :
          /\ pre[Len(pre)].timestamp > T
          /\ Len(pre) > 1 => pre[Len(pre) - 1].timestamp <= T
          /\ probe' = [fn |-> "causal", prefix |-> pre, targetTime |-> T,
                       tail1 |-> tail1, tail2 |-> tail2,
                       k |-> findLastMetadataIndex(pre \o tail1, T),
                       result1 |-> getSmoothedMousePosition(pre \o tail1, T),
                       result2 |-> getSmoothedMousePosition(pre \o tail2, T)]
    /\ UNCHANGED <<zoomRegions, metadata, stateRecordingGeometry, videoDimensions,
                   frameContentDimensions, previousPanX, previousPanY,
                   lastPanUpdateTime, alone, session, calls, last>>

\* a session of two calls with non-decreasing times that both fall in one region
SessionRegions == {rAuto, rSmall}
SessionSamples == {mdEmpty, mdConstant, mdTopEdge}
SessionTimes(r) ==
    {r.startTime + o :
        o \in {0, r.transitionDuration \div 2, r.transitionDuration, r.duration \div 2,
               r.duration - r.transitionDuration,
               r.duration - r.transitionDuration + r.transitionDuration \div 4,
               r.duration - r.transitionDuration \div 2,
               r.duration - r.transitionDuration \div 4}}

SecondCall(r, md, time1, time2, first) ==
    [fn |-> "session", region |-> r, metadata |-> md, time1 |-> time1, time2 |-> time2,
     first |-> first,
     second |-> calculateZoomTransform(time2, <<r>>, md, Geometry(16, 8), Geometry(16, 8),
                                       first.st)]

ProbeSession ==
    /\ probe = NoProbe
    /\ \E r \in SessionRegions, md \in SessionSamples :
          \E time1 \in SessionTimes(r), time2 \in SessionTimes(r) :
             /\ time1 <= time2
             /\ probe' = SecondCall(r, md, time1, time2,
                                    calculateZoomTransform(time1, <<r>>, md, Geometry(16, 8),
                                                           Geometry(16, 8), FreshState))
    /\ UNCHANGED <<zoomRegions, metadata, stateRecordingGeometry, videoDimensions,
                   frameContentDimensions, previousPanX, previousPanY,
                   lastPanUpdateTime, alone, session, calls, last>>

\* one region [320, 960) with transition durations 0, below, at and above half of
\* its duration, at and above its duration; query times before, in and after it
PhaseTransitions == {0, 80, 320, 480, 640, 1280}
PhaseTimes == {240 + 80 * i : i \in 0..10}
PhaseStates == {FreshState, [previousPanX |-> R(-2), previousPanY |-> One, lastPanUpdateTime |-> 640]}

ProbePhase ==
    /\ probe = NoProbe
    /\ \E td \in PhaseTransitions, currentTime \in PhaseTimes, md \in {mdEmpty, mdConstant}, st \in PhaseStates :
          probe' = [fn |-> "phase", metadata |-> md, time |-> currentTime, before |-> st,
                    region |-> Region(320, 640, <<3, 2>>, <<1, 4>>, Zero, "auto", "Balanced", td),
                    result |-> calculateZoomTransform(
                                   currentTime,
                                   <<Region(320, 640, <<3, 2>>, <<1, 4>>, Zero, "auto",
                                            "Balanced", td)>>,
                                   md, Geometry(16, 8), Geometry(16, 8), st)]
    /\ UNCHANGED <<zoomRegions, metadata, stateRecordingGeometry, videoDimensions,
                   frameContentDimensions, previousPanX, previousPanY,
                   lastPanUpdateTime, alone, session, calls, last>>

InitPure ==
    /\ Init
    /\ zoomRegions = <<rAuto>>
    /\ metadata = mdMoving
    /\ stateRecordingGeometry = <<Geometry(16, 8)>>
    /\ frameContentDimensions = Geometry(16, 8)

NextPure == ProbeIndex \/ ProbeSmooth \/ ProbePan \/ ProbeTargets \/ ProbeBoundaries
            \/ ProbeZoomOut \/ ProbeJump \/ ProbeCausal
            \/ ProbeSession \/ ProbePhase

SpecPure == InitPure /\ [][NextPure]_vars

-----------------------------------------------------------------------------
(* Properties.                                                              *)

Called == last.session # "none"

\* the regions whose interval [startTime, startTime + duration) contains t
ContainingRegions(t) ==
    {i \in 1..Len(zoomRegions) :
        zoomRegions[i].startTime <= t
        /\ t < zoomRegions[i].startTime + zoomRegions[i].duration}

InHold(r, t) ==
    r.startTime + r.transitionDuration <= t
    /\ t < r.startTime + r.duration - r.transitionDuration

PositiveGeometry ==
    /\ RecordingGeometry.width > 0 /\ RecordingGeometry.height > 0
    /\ frameContentDimensions.width > 0 /\ frameContentDimensions.height > 0

\* maxT = pivot*dim*(zoom-1)/zoom and minT = -(1-pivot)*dim*(zoom-1)/zoom
EnvelopeMax(pivot, dim, zoom) == Div(Mul(Mul(pivot, R(dim)), Sub(zoom, One)), zoom)
EnvelopeMin(pivot, dim, zoom) ==
    Neg(Div(Mul(Mul(Sub(One, pivot), R(dim)), Sub(zoom, One)), zoom))

WithinEnvelope(v, pivot, dim, zoom) ==
    Le(EnvelopeMin(pivot, dim, zoom), v) /\ Le(v, EnvelopeMax(pivot, dim, zoom))

\* the pan that centers the cursor: (0.5 - ((mouse/recordingDim - pivot)*zoom + pivot))
\* * frameDim / zoom
CenteringPan(mouse, pivot, zoom, recordingDim, frameDim) ==
    Div(Mul(Sub(<<1, 2>>, Add(Mul(Sub(Div(mouse, R(recordingDim)), pivot), zoom), pivot)),
            R(frameDim)), zoom)

\* C1: findLastMetadataIndex on a sequence with non-decreasing timestamps returns
\* an index i with samples[i].timestamp <= T and (i last or samples[i+1].timestamp
\* > T), hence the highest index among equal timestamps <= T; it returns -1
\* exactly when no sample has timestamp <= T (the empty sequence included).
C1_IndexIsLastAtOrBefore ==
    probe.fn = "findLastMetadataIndex" =>
        LET md == probe.metadata
            T == probe.time
            i == probe.result
        IN  /\ i \in (-1)..(Len(md) - 1)
            /\ i >= 0 => /\ At(md, i).timestamp <= T
                         /\ (i = Len(md) - 1 \/ At(md, i + 1).timestamp > T)
            /\ (i = -1) <=> ~\E k \in 1..Len(md) : md[k].timestamp <= T

\* C1 witness: equal timestamps <= T followed by a later sample; the highest of
\* the equal ones is returned
C1_Witness ==
    /\ probe.fn = "findLastMetadataIndex"
    /\ Len(probe.metadata) = MaxLen
    /\ probe.result = 2
    /\ At(probe.metadata, 1).timestamp = At(probe.metadata, 2).timestamp
    /\ At(probe.metadata, 3).timestamp > probe.time

C5_AxisOk(result, mouse, pivot, zoom, recordingDim, frameDim) ==
    LET desired == CenteringPan(mouse, pivot, zoom, recordingDim, frameDim)
        minT == EnvelopeMin(pivot, frameDim, zoom)
        maxT == EnvelopeMax(pivot, frameDim, zoom)
    IN  /\ Le(minT, result) /\ Le(result, maxT)
        /\ (Le(minT, desired) /\ Le(desired, maxT)) => result = desired
        /\ Lt(desired, minT) => result = minT
        /\ Lt(maxT, desired) => result = maxT
        /\ zoom = One => (minT = Zero /\ maxT = Zero /\ result = Zero)

\* C5: calculateBoundedPan, for a pivot in [0,1]x[0,1], a zoom level >= 1 and
\* positive geometries, returns tx and ty within [minT, maxT] of their axis, equal
\* to the cursor-centering pan when it lies in the envelope and to the nearest
\* bound otherwise; for zoom level 1 both bounds are 0 and the result is (0,0).
C5_BoundedPanWithinEnvelope ==
    (probe.fn = "calculateBoundedPan" /\ ~probe.mousePos.null) =>
        /\ C5_AxisOk(probe.result.tx, probe.mousePos.x, probe.origin.x, probe.zoomLevel,
                     probe.recordingGeometry.width, probe.frameContentDimensions.width)
        /\ C5_AxisOk(probe.result.ty, probe.mousePos.y, probe.origin.y, probe.zoomLevel,
                     probe.recordingGeometry.height, probe.frameContentDimensions.height)

\* C5 witness: zoom > 1, the x pan strictly inside its envelope (the centering
\* pan itself), the y pan clamped to the lower bound
C5_Witness ==
    /\ probe.fn = "calculateBoundedPan"
    /\ ~probe.mousePos.null
    /\ probe.zoomLevel = R(2)
    /\ Lt(EnvelopeMin(probe.origin.x, probe.frameContentDimensions.width, R(2)),
          probe.result.tx)
    /\ Lt(probe.result.tx,
          EnvelopeMax(probe.origin.x, probe.frameContentDimensions.width, R(2)))
    /\ probe.result.ty =
           EnvelopeMin(probe.origin.y, probe.frameContentDimensions.height, R(2))
    /\ probe.result.ty # Zero

C8_PrecedesEverySample(md, t) == \A k \in 1..Len(md) : md[k].timestamp > t

\* C8: getSmoothedMousePosition returns "none" exactly when no sample has
\* timestamp <= the target time (so for the empty sequence), calculateBoundedPan
\* of "none" is (0,0), and in an auto-mode region the pan target of a reference
\* time that precedes every sample is (0,0).
C8_NoSampleZeroPan ==
    /\ probe.fn = "getSmoothedMousePosition" =>
          /\ probe.result.null <=> C8_PrecedesEverySample(probe.metadata, probe.time)
          /\ probe.result.null => probe.pan = [tx |-> Zero, ty |-> Zero]
    /\ (probe.fn = "calculateBoundedPan" /\ probe.mousePos.null) =>
          probe.result = [tx |-> Zero, ty |-> Zero]
    /\ (probe.fn = "panTargets" /\ probe.region.mode = "auto") =>
          LET r == probe.region
              md == probe.metadata
          IN  /\ C8_PrecedesEverySample(md, r.startTime + r.transitionDuration)
                     => probe.initialPan = [tx |-> Zero, ty |-> Zero]
              /\ C8_PrecedesEverySample(md, probe.currentTime)
                     => probe.livePan = [tx |-> Zero, ty |-> Zero]
              /\ C8_PrecedesEverySample(md, r.startTime + r.duration - r.transitionDuration)
                     => probe.finalPan = [tx |-> Zero, ty |-> Zero]

\* C8 witness: an auto-mode region whose live reference time precedes every
\* sample (zero live pan) while its zoom-out reference time does not
C8_Witness ==
    /\ probe.fn = "panTargets"
    /\ probe.region.mode = "auto"
    /\ probe.metadata # <<>>
    /\ C8_PrecedesEverySample(probe.metadata, probe.currentTime)
    /\ probe.livePan = [tx |-> Zero, ty |-> Zero]
    /\ probe.finalPan # [tx |-> Zero, ty |-> Zero]

\* C2: with two playback sessions interleaving their calls (stated here for
\* positive geometries), each session receives the transforms it would receive if
\* it were the only caller.
C2_SessionsIndependent ==
    PositiveGeometry =>
        \A s \in Sessions :
            session[s].calls > 0 => session[s].out = session[s].outAlone

\* C3: from fresh state, the transform returned for a time t does not depend on
\* the times queried before it: two callers, each alone and with non-decreasing
\* query times, that have just queried the same time hold the same transform
\* (stated here for positive geometries).
C3_HistoryIndependent ==
    \A s1, s2 \in Sessions :
        (/\ PositiveGeometry
         /\ session[s1].calls > 0 /\ session[s2].calls > 0
         /\ session[s1].monotone /\ session[s2].monotone
         /\ session[s1].currentTime = session[s2].currentTime)
            => session[s1].outAlone = session[s2].outAlone

\* C4: a call inside a region whose time differs by more than 0.5 s from the time
\* of the session's preceding call has the carried pan reset to (0,0) before the
\* phase computation, so its transform is the one computed from a zero carried pan
\* (stated here for positive geometries).
C4_SeekResetsCarriedPan ==
    (/\ Called
     /\ PositiveGeometry
     /\ last.previousTime # -1
     /\ ContainingRegions(last.currentTime) # {}
     /\ Abs(last.currentTime - last.previousTime) > 500)
        => last.res.out =
               calculateZoomTransform(last.currentTime, zoomRegions, metadata,
                                      RecordingGeometry, frameContentDimensions,
                                      [last.before EXCEPT !.previousPanX = Zero,
                                                          !.previousPanY = Zero]).out

\* C6: with positive geometries, every call that lands in the Hold phase of an
\* auto-mode region returns translateX within [minTx, maxTx] and translateY within
\* [minTy, maxTy] of that region, whatever calls preceded it.
C6_HoldPanWithinEnvelope ==
    (Called /\ PositiveGeometry) =>
        \A i \in ContainingRegions(last.currentTime) :
            LET r == zoomRegions[i]
                origin == [x |-> Add(r.targetX, <<1, 2>>), y |-> Add(r.targetY, <<1, 2>>)]
            IN  (r.mode = "auto" /\ InHold(r, last.currentTime)) =>
                    /\ WithinEnvelope(last.res.out.translateX, origin.x,
                                      frameContentDimensions.width, r.zoomLevel)
                    /\ WithinEnvelope(last.res.out.translateY, origin.y,
                                      frameContentDimensions.height, r.zoomLevel)

\* C7: when the recording geometry or the canvas has a zero width or height,
\* every pan target computed inside a region is (0,0) and the returned translate
\* is a finite number (no division by the zero dimension takes place).
C7_DegenerateGeometryZeroPan ==
    (Called /\ ~PositiveGeometry /\ ContainingRegions(last.currentTime) # {}) =>
        /\ last.res.target = [tx |-> Zero, ty |-> Zero]
        /\ IsFinite(last.res.out.translateX)
        /\ IsFinite(last.res.out.translateY)

\* C9: a call at a time inside no region's [startTime, startTime + duration)
\* returns scale 1, translate (0,0) and origin 50% 50%, whatever state is carried;
\* the time startTime + duration itself is outside the region.
C9_InactiveIsIdentity ==
    (Called /\ ContainingRegions(last.currentTime) = {}) =>
        last.res.out = [scale |-> One, translateX |-> Zero, translateY |-> Zero,
                        transformOrigin |-> <<R(50), R(50)>>]

\* C9 witness: a call exactly at the end of a region whose pivot is off-center,
\* with a nonzero carried pan
C9_Witness ==
    /\ Called
    /\ ContainingRegions(last.currentTime) = {}
    /\ \E i \in 1..Len(zoomRegions) :
           /\ last.currentTime = zoomRegions[i].startTime + zoomRegions[i].duration
           /\ zoomRegions[i].targetX # Zero
    /\ last.before.previousPanX # Zero

\* C10: every call that lands in the Hold phase of a region whose mode is not
\* auto returns translate (0,0) and scale equal to the region's zoom level,
\* whatever calls preceded it.
C10_FixedHoldZeroPan ==
    Called =>
        \A i \in ContainingRegions(last.currentTime) :
            LET r == zoomRegions[i]
            IN  (r.mode # "auto" /\ InHold(r, last.currentTime)) =>
                    /\ last.res.out.translateX = Zero
                    /\ last.res.out.translateY = Zero
                    /\ last.res.out.scale = r.zoomLevel

\* C11: within one region with 0 < transitionDuration < duration/2 the phase
\* formulas meet at the phase boundaries: the zoom-in at progress 1 has the scale
\* and translate of the Hold entered from it at the zoom-in end; at the zoom-out
\* start the zoom-out has the scale, pan target, blending alpha and translate of
\* the Hold; the zoom-out at progress 1 has scale 1 and translate (0,0).
C11_PhasesMeetAtBoundaries ==
    (/\ probe.fn = "phaseBoundaries"
     /\ 0 < probe.region.transitionDuration
     /\ 2 * probe.region.transitionDuration < probe.region.duration) =>
        /\ probe.zoomInEnd.scale = probe.region.zoomLevel
        /\ probe.holdStart.scale = probe.zoomInEnd.scale
        /\ probe.holdStart.translateX = probe.zoomInEnd.translateX
        /\ probe.holdStart.translateY = probe.zoomInEnd.translateY
        /\ probe.zoomOutStart.scale = probe.holdEnd.scale
        /\ probe.zoomOutStart.target = probe.holdEnd.target
        /\ probe.zoomOutAlpha = probe.holdAlpha
        /\ probe.zoomOutStart.translateX = probe.holdEnd.translateX
        /\ probe.zoomOutStart.translateY = probe.holdEnd.translateY
        /\ probe.zoomOutEnd.scale = One
        /\ probe.zoomOutEnd.translateX = Zero
        /\ probe.zoomOutEnd.translateY = Zero

\* C11 witness: an auto-mode region with a nonzero pan at the zoom-in end, a
\* nonzero carried pan and a blending alpha strictly between 0 and 1
C11_Witness ==
    /\ probe.fn = "phaseBoundaries"
    /\ probe.region.mode = "auto"
    /\ probe.zoomInEnd.translateX # Zero
    /\ probe.holdEnd.target # [tx |-> Zero, ty |-> Zero]
    /\ probe.prev.x # Zero
    /\ Lt(Zero, probe.holdAlpha) /\ Lt(probe.holdAlpha, One)

\* The zoom-out of an auto-mode region as a function of a progress value q used
\* for the cursor influence and the convergence: the target is the live bounded
\* pan multiplied by (1 - q/0.05 if q <= 0.05, else 0), the translate is
\* lerp(previousPan, target, lerp(clamp01((gap/0.016)*0.1), 1, q^4))
C12_Formula(q) ==
    LET r == probe.region
        t == r.startTime + r.duration - r.transitionDuration + probe.offset
        e == Easing(r.easing, Q(probe.offset, r.transitionDuration))
        live == calculateBoundedPan(getSmoothedMousePosition(probe.metadata, t),
                                    [x |-> Add(r.targetX, <<1, 2>>),
                                     y |-> Add(r.targetY, <<1, 2>>)],
                                    Add(Mul(r.zoomLevel, Sub(One, e)), e),
                                    Geometry(16, 8), Geometry(16, 8))
        influence == IF Le(q, <<1, 20>>) THEN Sub(One, Mul(q, R(20))) ELSE Zero
        target == [tx |-> Mul(live.tx, influence), ty |-> Mul(live.ty, influence)]
        base == IF probe.gap > 0 THEN Q(probe.gap, 160) ELSE Zero
        clamped == IF Lt(One, base) THEN One ELSE base
        q4 == Mul(Mul(q, q), Mul(q, q))
        alpha == Add(Mul(clamped, Sub(One, q4)), q4)
    IN  /\ probe.result.target = target
        /\ Lt(<<1, 20>>, q) => probe.result.target = [tx |-> Zero, ty |-> Zero]
        /\ probe.result.translateX =
               Add(Mul(probe.prev.x, Sub(One, alpha)), Mul(target.tx, alpha))
        /\ probe.result.translateY =
               Add(Mul(probe.prev.y, Sub(One, alpha)), Mul(target.ty, alpha))
        /\ probe.offset = r.transitionDuration =>
               /\ probe.result.translateX = probe.result.target.tx
               /\ probe.result.translateY = probe.result.target.ty

C12_AutoZoomOut ==
    /\ probe.fn = "zoomOut"
    /\ probe.region.mode = "auto"
    /\ probe.metadata # <<>>

C13_Distance(a, b) == IF Lt(a, b) THEN Sub(b, a) ELSE Sub(a, b)

\* v lies between the old coordinate a and the new coordinate b
C13_Between(a, v, b) == (Le(a, v) /\ Le(v, b)) \/ (Le(b, v) /\ Le(v, a))

\* C13: for a stream that rests at one position and jumps once, by more than the
\* dead-zone radius, to a new position where it rests, the smoothed positions for
\* increasing query times never move away from the new position on either axis
\* and never pass beyond it.
C13_MonotoneApproach ==
    probe.fn = "jump" =>
        LET old == probe.metadata[1]
            new == probe.metadata[Len(probe.metadata)]
            p1 == probe.result1
            p2 == probe.result2
        IN  /\ ~p1.null /\ ~p2.null
            /\ C13_Between(R(old.x), p1.x, R(new.x)) /\ C13_Between(R(old.y), p1.y, R(new.y))
            /\ C13_Between(R(old.x), p2.x, R(new.x)) /\ C13_Between(R(old.y), p2.y, R(new.y))
            /\ Le(C13_Distance(p2.x, R(new.x)), C13_Distance(p1.x, R(new.x)))
            /\ Le(C13_Distance(p2.y, R(new.y)), C13_Distance(p1.y, R(new.y)))

\* C14: getSmoothedMousePosition is causal: with k the index of the last sample
\* at or before the target time T, two time-ordered sequences that agree on the
\* samples at indices <= k+1 give the same output for T, whatever follows.
C14_Causal ==
    probe.fn = "causal" =>
        /\ probe.k = Len(probe.prefix) - 2
        /\ probe.result1 = probe.result2

\* a T inside the first smoothing window whose output is a position between two
\* samples, computed on sequences whose later samples differ
C14_Witness ==
    /\ probe.fn = "causal"
    /\ probe.tail1 # probe.tail2
    /\ probe.targetTime < SMOOTHING_WINDOW
    /\ ~probe.result1.null
    /\ probe.result1.x \notin {R(0), R(16)}

\* the returned translate lies in the envelope of the returned scale
C15_Covers(r, out) ==
    /\ WithinEnvelope(out.translateX, Add(r.targetX, <<1, 2>>), 16, out.scale)
    /\ WithinEnvelope(out.translateY, Add(r.targetY, <<1, 2>>), 8, out.scale)

\* C15: in a session whose calls all fall in one auto-mode region with
\* non-decreasing times, every call, in Zoom-In, Hold or Zoom-Out, returns a
\* translate within [-(1-pivot)*dim*(s-1)/s, pivot*dim*(s-1)/s] on each axis,
\* with s the scale returned by that call.
C15_TranslateWithinScaledEnvelope ==
    probe.fn = "session" =>
        /\ C15_Covers(probe.region, probe.first.out)
        /\ C15_Covers(probe.region, probe.second.out)

\* C16: with positive geometries, a call that repeats the arguments of the call
\* just before it (same query time, regions, samples and geometries) returns the
\* same scale, translate and origin as that call, in every phase and for
\* inactive times.
C16_RepeatedCallSameResult ==
    [][(Called /\ PositiveGeometry /\ last'.currentTime = last.currentTime)
           => last'.res.out = last.res.out]_vars

\* the region found by the last call, and the pan target of its zoom-in: the
\* bounded pan of the smoothed cursor at startTime + transitionDuration for an
\* auto-mode region, (0,0) for a fixed one
C17_Region == zoomRegions[last.res.region]
C17_InZoomIn ==
    /\ Called /\ PositiveGeometry /\ last.res.region # 0
    /\ C17_Region.startTime <= last.currentTime
    /\ last.currentTime < C17_Region.startTime + C17_Region.transitionDuration
C17_Target ==
    IF C17_Region.mode = "auto"
    THEN calculateBoundedPan(
             getSmoothedMousePosition(metadata,
                                      C17_Region.startTime + C17_Region.transitionDuration),
             [x |-> Add(C17_Region.targetX, <<1, 2>>), y |-> Add(C17_Region.targetY, <<1, 2>>)],
             C17_Region.zoomLevel, RecordingGeometry, frameContentDimensions)
    ELSE ZeroPan

C18_InHold ==
    /\ Called /\ PositiveGeometry /\ last.res.region # 0
    /\ zoomRegions[last.res.region].mode = "auto"
    /\ InHold(zoomRegions[last.res.region], last.currentTime)

\* the bounded pan of the smoothed cursor at the query time
C18_LiveTarget ==
    LET r == zoomRegions[last.res.region]
    IN  calculateBoundedPan(getSmoothedMousePosition(metadata, last.currentTime),
                            [x |-> Add(r.targetX, <<1, 2>>), y |-> Add(r.targetY, <<1, 2>>)],
                            r.zoomLevel, RecordingGeometry, frameContentDimensions)

\* clamp01(((t - lastQueryTime)/0.016)*0.1), times in ms
C18_Alpha ==
    LET a == Q(last.currentTime - last.before.lastPanUpdateTime, 160)
    IN  IF Lt(a, Zero) THEN Zero ELSE IF Lt(One, a) THEN One ELSE a

\* the Hold result smoothed from the pan (prevX, prevY)
C18_HoldFrom(prevX, prevY) ==
    LET timeDelta == last.currentTime - last.before.lastPanUpdateTime
    IN  /\ last.res.out.scale = zoomRegions[last.res.region].zoomLevel
        /\ last.res.out.translateX = lerp(prevX, C18_LiveTarget.tx, C18_Alpha)
        /\ last.res.out.translateY = lerp(prevY, C18_LiveTarget.ty, C18_Alpha)
        /\ timeDelta <= 0 =>
              /\ C18_Alpha = Zero
              /\ last.res.out.translateX = prevX
              /\ last.res.out.translateY = prevY
        /\ timeDelta >= 160 =>
              /\ C18_Alpha = One
              /\ last.res.out.translateX = C18_LiveTarget.tx
              /\ last.res.out.translateY = C18_LiveTarget.ty
        /\ previousPanX = last.res.out.translateX
        /\ previousPanY = last.res.out.translateY
        /\ lastPanUpdateTime = last.currentTime

\* C18 as stated: every call in the Hold phase of an auto-mode region returns
\* scale = zoomLevel and translate = lerp(carried pan, liveTarget, alpha) with
\* alpha = clamp01(((t - lastQueryTime)/0.016)*0.1); when t <= lastQueryTime the
\* translate is the carried pan unchanged, when t - lastQueryTime >= 0.16 s it is
\* the live target; afterwards the carried pan is the returned translate and the
\* last query time is t.
C18_HoldFromCarriedPan ==
    C18_InHold => C18_HoldFrom(last.before.previousPanX, last.before.previousPanY)

\* C18 (amended): the same, with previousPan the carried pan when
\* |t - lastQueryTime| <= 0.5 s and (0,0) when |t - lastQueryTime| > 0.5 s; so
\* when t <= lastQueryTime the translate is the carried pan only if t is at most
\* 0.5 s before lastQueryTime, and (0,0) otherwise.
C18_HoldFromResetPan ==
    C18_InHold =>
        IF Abs(last.currentTime - last.before.lastPanUpdateTime) > SeekThresholdMs
        THEN C18_HoldFrom(Zero, Zero)
        ELSE C18_HoldFrom(last.before.previousPanX, last.before.previousPanY)

\* a Hold call less than 0.16 s after the last query time that moves the carried
\* pan part of the way to the live target
C18_Witness ==
    /\ C18_InHold
    /\ C18_Alpha \notin {Zero, One}
    /\ last.res.out.translateX \notin {last.before.previousPanX, C18_LiveTarget.tx}

\* the conditions of the three phase branches as written, and of region selection
C19_ZoomInCond(r, t) == t >= r.startTime /\ t < r.startTime + r.transitionDuration
C19_HoldCond(r, t) ==
    t >= r.startTime + r.transitionDuration
    /\ t < r.startTime + r.duration - r.transitionDuration
C19_ZoomOutCond(r, t) ==
    t >= r.startTime + r.duration - r.transitionDuration /\ t <= r.startTime + r.duration
C19_Selected(r, t) == r.startTime <= t /\ t < r.startTime + r.duration

\* the branch an if / else if chain over the three conditions takes
C19_Branch(r, t) ==
    IF C19_ZoomInCond(r, t) THEN "zoomIn"
    ELSE IF C19_HoldCond(r, t) THEN "hold"
    ELSE IF C19_ZoomOutCond(r, t) THEN "zoomOut"
    ELSE "none"

\* C19: for every transitionDuration (0, below and above duration/2, above the
\* duration) and every query time the region is selected for, exactly one of the
\* branches Zoom-In, Hold, Zoom-Out is taken, the one the chain of conditions on t
\* and the region's fields gives, so no call falls through with the initial scale
\* and translate; a query time the region is not selected for is never given a
\* phase, the end time startTime + duration of the Zoom-Out condition included.
C19_OnePhasePerActiveTime ==
    probe.fn = "phase" =>
        IF C19_Selected(probe.region, probe.time)
        THEN /\ probe.result.region = 1
             /\ probe.result.phase \in {"zoomIn", "hold", "zoomOut"}
             /\ probe.result.phase = C19_Branch(probe.region, probe.time)
             /\ probe.result.st.lastPanUpdateTime = probe.time
             /\ probe.result.st.previousPanX = probe.result.out.translateX
             /\ probe.result.st.previousPanY = probe.result.out.translateY
        ELSE /\ probe.result.region = 0
             /\ probe.result.phase = "inactive"
             /\ probe.result.out = defaultTransform
             /\ probe.result.st = probe.before

\* a selected time at which both the Zoom-In and the Zoom-Out condition hold
\* (transitionDuration above duration/2) and Zoom-In is the branch taken
C19_Witness ==
    /\ probe.fn = "phase"
    /\ C19_Selected(probe.region, probe.time)
    /\ C19_ZoomInCond(probe.region, probe.time)
    /\ C19_ZoomOutCond(probe.region, probe.time)
    /\ probe.result.phase = "zoomIn"

=============================================================================
